---- MODULE Spec2Model ----
(***************************************************************************)
(* A model of the RAG document service: the chunker                        *)
(* (app/services/document_processor.py), the vector store                  *)
(* (app/services/vector_store.py), the RAG pipeline                        *)
(* (app/services/rag_pipeline.py) and the routes that drive them           *)
(* (app/routes/documents.py, app/routes/query.py).                         *)
(*                                                                         *)
(* Text is a sequence of one-character strings.  Distances and relevance   *)
(* scores are fixed-point numbers: Unit stands for 1.0.                    *)
(***************************************************************************)
EXTENDS Integers, Sequences, FiniteSets, TLC

VARIABLES
    \* ---- DocumentProcessor and one call of chunk_text ----
    chunk_size,      \* self.chunk_size
    chunk_overlap,   \* self.chunk_overlap
    text,            \* the argument of chunk_text
    pc,              \* position in chunk_text
    i,               \* the loop variable of chunk_text
    chunks,          \* the local list chunks
    windows,         \* history: the offsets i the loop body has run with
    \* ---- the service ----
    collection,      \* the ChromaDB collection: its records, in insertion order
    files,           \* the document ids that have a file in the upload directory
    uuids,           \* how many document ids uuid4() has handed out
    now,             \* the clock behind datetime.now()
    result,          \* what the last request returned or raised
    live,            \* history: the uploads answered 201 and not deleted since
    removed,         \* history: the document ids a delete was answered 200 for
    writers,         \* the calls running on the vector store side by side
    uploads          \* the upload requests waiting in save_upload_file's await

chunkVars == <<chunk_size, chunk_overlap, text, pc, i, chunks, windows>>
indexVars == <<collection, files, uuids, now, result, live, removed>>
vars == <<chunk_size, chunk_overlap, text, pc, i, chunks, windows,
          collection, files, uuids, now, result, live, removed, writers,
          uploads>>

----------------------------------------------------------------------------
(* Bounds of the model *)

MaxLen == 4          \* longest enumerated text
MaxSize == 4         \* largest chunk_size (chunk_overlap ranges over 0..MaxSize)
MaxUploads == 2      \* uploads that get a document id
MaxTopK == 4         \* largest top_k of a query request
IndexChunkSize == 4      \* settings.chunk_size of the service runs
IndexChunkOverlap == 1   \* settings.chunk_overlap of the service runs

----------------------------------------------------------------------------
(* Characters and strings *)

Alphabet == {"a", "b", " ", "\f"}

\* The characters str.strip() removes (those with str.isspace()): space, tab,
\* line feed, carriage return, form feed, then written as the characters
\* themselves vertical tab (0x0B), the separators 0x1C to 0x1F, next line
\* (0x85), no-break space (0xA0) and the Ogham space mark (U+1680).  The
\* sixteen others (U+2000 to U+200A, U+2028, U+2029, U+202F, U+205F, U+3000)
\* are stripped too but cannot be written in a string of a module.
Whitespace ==
    {" ", "\t", "\n", "\r", "\f", "", "", "", "", "",
     "", " ", " "}

Str(n) == UNION {[1..k -> Alphabet] : k \in 0..n}

\* The scenario text "A. B. C."
ExampleText == <<"A", ".", " ", "B", ".", " ", "C", ".">>

MinOf(S) == CHOOSE x \in S : \A y \in S : x <= y
MaxOf(S) == CHOOSE x \in S : \A y \in S : x >= y

\* Python s[a:b] for 0 <= a and 0 <= b (b may pass the end).
Slice(s, a, b) == SubSeq(s, a + 1, IF b < Len(s) THEN b ELSE Len(s))

RECURSIVE LStrip(_)
LStrip(s) ==
    IF s = <<>> THEN s
    ELSE IF Head(s) \in Whitespace THEN LStrip(Tail(s)) ELSE s

RECURSIVE RStrip(_)
RStrip(s) ==
    IF s = <<>> THEN s
    ELSE IF s[Len(s)] \in Whitespace THEN RStrip(SubSeq(s, 1, Len(s) - 1)) ELSE s

\* str.strip()
Strip(s) == RStrip(LStrip(s))

----------------------------------------------------------------------------
(* DocumentProcessor *)

\* __init__ stores both numbers as given; it raises nothing.
DocumentProcessorInit(size, overlap) ==
    [ok |-> TRUE, chunk_size |-> size, chunk_overlap |-> overlap]

StepSum(size, overlap) == size + overlap

\* A stride of one character whatever the configuration.
StepUnit(size, overlap) == 1

\* step = self.chunk_size - self.chunk_overlap
StepOf(size, overlap) == size - overlap

AppendRaw(acc, chunk) ==
    IF Strip(chunk) # <<>> THEN Append(acc, chunk) ELSE acc

\* if chunk.strip(): chunks.append(chunk.strip())
AppendChunk(acc, chunk) ==
    IF Strip(chunk) # <<>> THEN Append(acc, Strip(chunk)) ELSE acc

\* One run of the loop body up to the break test: the new chunks list.
LoopBody(t, size, k, acc) == AppendChunk(acc, Slice(t, k, k + size))

\* if i + self.chunk_size >= text_length: break
BreakTest(t, size, k) == k + size >= Len(t)

\* if not text: return []
ChunkEnter ==
    /\ pc = "call"
    /\ IF text = <<>>
       THEN /\ pc' = "done"
            /\ chunks' = <<>>
            /\ i' = i
       ELSE IF StepOf(chunk_size, chunk_overlap) = 0
       THEN \* range(0, text_length, 0) raises ValueError
            /\ pc' = "error"
            /\ chunks' = <<>>
            /\ i' = i
       ELSE /\ pc' = "loop"
            /\ chunks' = <<>>
            /\ i' = 0
    /\ UNCHANGED <<chunk_size, chunk_overlap, text, windows>>
    /\ UNCHANGED <<indexVars, writers, uploads>>

\* range(0, text_length, step) yields i: the loop body runs once.
ChunkIter ==
    /\ pc = "loop"
    /\ StepOf(chunk_size, chunk_overlap) > 0
    /\ i < Len(text)
    /\ chunks' = LoopBody(text, chunk_size, i, chunks)
    /\ windows' = Append(windows, i)
    /\ IF BreakTest(text, chunk_size, i)
       THEN pc' = "done" /\ i' = i
       ELSE pc' = "loop" /\ i' = i + StepOf(chunk_size, chunk_overlap)
    /\ UNCHANGED <<chunk_size, chunk_overlap, text>>
    /\ UNCHANGED <<indexVars, writers, uploads>>

\* range(0, text_length, step) is exhausted (at once when step < 0).
ChunkExhaust ==
    /\ pc = "loop"
    /\ ~(StepOf(chunk_size, chunk_overlap) > 0 /\ i < Len(text))
    /\ pc' = "done"
    /\ UNCHANGED <<chunk_size, chunk_overlap, text, i, chunks, windows>>
    /\ UNCHANGED <<indexVars, writers, uploads>>

\* The for loop of chunk_text from offset k on, as one computation.
RECURSIVE ChunkLoop(_, _, _, _, _)
ChunkLoop(t, size, step, k, acc) ==
    IF ~(step > 0 /\ k < Len(t)) THEN acc
    ELSE IF BreakTest(t, size, k) THEN LoopBody(t, size, k, acc)
    ELSE ChunkLoop(t, size, step, k + step, LoopBody(t, size, k, acc))

\* chunk_text as one call: the list it returns, or raised when range() rejects
\* a zero step.
chunk_text(t, size, overlap) ==
    IF t = <<>> THEN [raised |-> FALSE, value |-> <<>>]
    ELSE IF StepOf(size, overlap) = 0 THEN [raised |-> TRUE, value |-> <<>>]
    ELSE [raised |-> FALSE,
          value |-> ChunkLoop(t, size, StepOf(size, overlap), 0, <<>>)]

\* The service before any request: an empty collection, no file, no id handed out.
EmptyService ==
    /\ collection = <<>>
    /\ files = {}
    /\ uuids = 0
    /\ now = 0
    /\ result = [op |-> "none", status |-> 0]
    /\ live = {}
    /\ removed = {}
    /\ writers = <<>>
    /\ uploads = {}

ValidConfig == 0 <= chunk_overlap /\ chunk_overlap < chunk_size

InitChunk ==
    /\ \E size \in 1..MaxSize, overlap \in 0..MaxSize :
          LET p == DocumentProcessorInit(size, overlap) IN
          /\ chunk_size = p.chunk_size
          /\ chunk_overlap = p.chunk_overlap
          /\ pc = IF p.ok THEN "call" ELSE "config_error"
    /\ text \in Str(MaxLen) \cup {ExampleText}
    /\ i = 0
    /\ chunks = <<>>
    /\ windows = <<>>
    /\ EmptyService

NextChunk == ChunkEnter \/ ChunkIter \/ ChunkExhaust

SpecChunk == InitChunk /\ [][NextChunk]_vars

----------------------------------------------------------------------------
(* Claims about chunk_text *)

\* The trimmed form of s, stated by positions: what lies between the first and
\* the last character that is not whitespace.
Trimmed(s) ==
    LET keep == {j \in 1..Len(s) : s[j] \notin Whitespace} IN
    IF keep = {} THEN <<>> ELSE SubSeq(s, MinOf(keep), MaxOf(keep))

NonEmpty(s) == s # <<>>

\* The number of the last window: the least k with k*step + size >= len.
LastWindow(t, size, step) ==
    MinOf({k \in 0..Len(t) : k * step + size >= Len(t)})

\* The trimmed windows text[k*step : k*step+size], k = 0..LastWindow, empty ones left out.
ExpectedChunks(t, size, step) ==
    IF t = <<>> THEN <<>>
    ELSE SelectSeq([k \in 1..(LastWindow(t, size, step) + 1) |->
                       Trimmed(Slice(t, (k - 1) * step, (k - 1) * step + size))],
                   NonEmpty)

ExampleChunks ==
    << <<"A", ".", " ", "B">>, <<"B", ".", " ", "C">>, <<"C", ".">> >>

\* C1: for every text and valid (size, overlap), chunk_text returns in order the
\* trimmed windows text[k*step : k*step+size], k = 0, 1, ..., without the windows
\* that are empty after trimming, ending with the first window that has
\* k*step + size >= len(text); the empty text gives the empty list, and
\* "A. B. C." with size 4 and overlap 1 gives ["A. B", "B. C", "C."].
C1_ChunkWindows ==
    (pc = "done" /\ ValidConfig) =>
        /\ chunks = ExpectedChunks(text, chunk_size, chunk_size - chunk_overlap)
        /\ (text = <<>> => chunks = <<>>)
        /\ (text = ExampleText /\ chunk_size = 4 /\ chunk_overlap = 1
               => chunks = ExampleChunks)

C1_Witness ==
    /\ pc = "done"
    /\ text = ExampleText
    /\ chunk_size = 4
    /\ chunk_overlap = 1
    /\ chunks = ExampleChunks

\* C2: for every text of length >= 1 and valid (size, overlap), every character
\* position 0..len(text)-1 lies in a window [offset, offset+size) the loop visited.
C2_Coverage ==
    (pc = "done" /\ ValidConfig /\ Len(text) >= 1) =>
        \A p \in 0..(Len(text) - 1) :
            \E w \in 1..Len(windows) :
                windows[w] <= p /\ p < windows[w] + chunk_size

C2_Witness ==
    /\ pc = "done"
    /\ ValidConfig
    /\ chunk_overlap >= 1
    /\ Len(text) > chunk_size
    /\ Len(windows) >= 2

\* C3: a configuration with overlap >= size is rejected when the processor is
\* constructed, so chunk_text never runs with a zero or negative stride.
C3_ConfigRejected ==
    (chunk_overlap >= chunk_size) => pc = "config_error"

----------------------------------------------------------------------------
(* The embedder and the distance of the collection *)

\* 1.0 in the fixed-point scale of distances and scores (four decimals).
Unit == 10000

\* Embedding vectors: integer vectors of one length (25), so that cosine
\* distances are exact in the fixed-point scale.
Vectors == << <<25, 0>>, <<24, 7>>, <<7, 24>>, <<-15, -20>> >>

Dot(a, b) == a[1] * b[1] + a[2] * b[2]

Norm(a) == CHOOSE n \in 0..50 : n * n = Dot(a, a)

\* The collection's metric ("hnsw:space": "cosine"): 1 - cos(a, b).
CosineDistance(a, b) == Unit - (Unit * Dot(a, b)) \div (Norm(a) * Norm(b))

CountOf(s, c) == Cardinality({j \in 1..Len(s) : s[j] = c})

\* model.encode on one text: a fixed function from text to vector.  The
\* sentence-transformer is a black box; the stand-in depends on the text only.
Embed(s) == Vectors[((Len(s) + CountOf(s, ".") + 2 * CountOf(s, "?")) % Len(Vectors)) + 1]

\* generate_embeddings: one vector per text, in order.
generate_embeddings(texts) == [j \in 1..Len(texts) |-> Embed(texts[j])]

\* generate_embedding
generate_embedding(s) == generate_embeddings(<<s>>)[1]

----------------------------------------------------------------------------
(* VectorStore *)

\* f"{document_id}_chunk_{i}"
ChunkId(document_id, k) == <<document_id, "_chunk_", k>>

\* chunk_ids = [f"{document_id}_chunk_{i}" for i in range(len(chunks))]
ChunkIds(chunkList, document_id) ==
    [j \in 1..Len(chunkList) |-> ChunkId(document_id, j - 1)]

ChunkMetadatasOneBased(chunkList, document_id, filename, upload_time) ==
    [j \in 1..Len(chunkList) |->
        [document_id |-> document_id,
         filename |-> filename,
         chunk_index |-> j,
         upload_time |-> upload_time,
         total_chunks |-> Len(chunkList)]]

\* metadatas = [{...} for i in range(len(chunks))]
\* The metadata with total_chunks counting one chunk too many.
ChunkMetadatasTotalAhead(chunkList, document_id, filename, upload_time) ==
    [j \in 1..Len(chunkList) |->
        [document_id |-> document_id,
         filename |-> filename,
         chunk_index |-> j - 1,
         upload_time |-> upload_time,
         total_chunks |-> Len(chunkList) + 1]]

ChunkMetadatas(chunkList, document_id, filename, upload_time) ==
    [j \in 1..Len(chunkList) |->
        [document_id |-> document_id,
         filename |-> filename,
         chunk_index |-> j - 1,
         upload_time |-> upload_time,
         total_chunks |-> Len(chunkList)]]

\* collection.add: one record per id, appended in order; an id the collection
\* already holds keeps its record.
CollectionAdd(coll, ids, embeddings, documents, metadatas) ==
    LET held == {coll[j].id : j \in 1..Len(coll)}
        new == [j \in 1..Len(ids) |->
                   [id |-> ids[j],
                    embedding |-> embeddings[j],
                    document |-> documents[j],
                    metadata |-> metadatas[j]]]
        Fresh(r) == r.id \notin held
    IN coll \o SelectSeq(new, Fresh)

\* add_documents that leaves the last chunk of the batch out.
add_documentsDropLast(coll, chunkList, embeddings, document_id, filename, upload_time) ==
    IF chunkList = <<>> \/ embeddings = <<>> THEN coll
    ELSE CollectionAdd(coll,
                       SubSeq(ChunkIds(chunkList, document_id), 1, Len(chunkList) - 1),
                       embeddings,
                       chunkList,
                       ChunkMetadatas(chunkList, document_id, filename, upload_time))

\* add_documents: the collection afterwards.
add_documents(coll, chunkList, embeddings, document_id, filename, upload_time) ==
    IF chunkList = <<>> \/ embeddings = <<>> THEN coll
    ELSE CollectionAdd(coll,
                       ChunkIds(chunkList, document_id),
                       embeddings,
                       chunkList,
                       ChunkMetadatas(chunkList, document_id, filename, upload_time))

\* The records with their distance to the query embedding, from record j on.
RECURSIVE Scored(_, _, _, _)
Scored(coll, query_embedding, j, acc) ==
    IF j > Len(coll) THEN acc
    ELSE Scored(coll, query_embedding, j + 1,
                Append(acc, [distance |-> CosineDistance(query_embedding,
                                                         coll[j].embedding),
                             record |-> coll[j]]))

\* x put into a list sorted by distance, after the entries that are not farther.
InsertByDistance(sorted, x) ==
    LET p == Cardinality({m \in 1..Len(sorted) : sorted[m].distance <= x.distance})
    IN SubSeq(sorted, 1, p) \o <<x>> \o SubSeq(sorted, p + 1, Len(sorted))

RECURSIVE SortByDistance(_, _)
SortByDistance(scored, sorted) ==
    IF scored = <<>> THEN sorted
    ELSE SortByDistance(Tail(scored), InsertByDistance(sorted, Head(scored)))

\* The four lists of a query answer, each with one inner list (one per query
\* embedding), from the nearest entries.
QueryAnswer(nearest) ==
    [ids |-> << [r \in 1..Len(nearest) |-> nearest[r].record.id] >>,
     documents |-> << [r \in 1..Len(nearest) |-> nearest[r].record.document] >>,
     metadatas |-> << [r \in 1..Len(nearest) |-> nearest[r].record.metadata] >>,
     distances |-> << [r \in 1..Len(nearest) |-> nearest[r].distance] >>]

\* collection.query for one query embedding: the n_results nearest records,
\* nearest first, records at the same distance in insertion order.
CollectionQuery(coll, query_embedding, n_results) ==
    QueryAnswer(SubSeq(SortByDistance(Scored(coll, query_embedding, 1, <<>>), <<>>),
                       1,
                       IF n_results < Len(coll) THEN n_results ELSE Len(coll)))

\* n_results left out of the call: the collection's own default.
searchDefaultResults(coll, query_embedding, top_k) ==
    CollectionQuery(coll, query_embedding, 10)

\* search
search(coll, query_embedding, top_k) ==
    CollectionQuery(coll, query_embedding, top_k)

\* collection.get without the where filter: the ids of every record.
CollectionGetIdsAll(coll, document_id) ==
    [j \in 1..Len(coll) |-> coll[j].id]

\* collection.get(where={"document_id": document_id})['ids']
CollectionGetIds(coll, document_id) ==
    LET Match(r) == r.metadata.document_id = document_id
        hits == SelectSeq(coll, Match)
    IN [j \in 1..Len(hits) |-> hits[j].id]

\* collection.delete(ids=ids)
CollectionDelete(coll, ids) ==
    LET gone == {ids[j] : j \in 1..Len(ids)}
        Kept(r) == r.id \notin gone
    IN SelectSeq(coll, Kept)

delete_documentFirstOnly(coll, document_id) ==
    LET ids == CollectionGetIds(coll, document_id) IN
    IF ids = <<>> THEN [collection |-> coll, deleted_count |-> 0]
    ELSE [collection |-> CollectionDelete(coll, <<ids[1]>>),
          deleted_count |-> Len(ids)]

\* delete_document without the early return: collection.delete is reached with
\* an empty id list and no filter, and empties the collection.
delete_documentNoGuard(coll, document_id) ==
    LET ids == CollectionGetIds(coll, document_id) IN
    IF ids = <<>> THEN [collection |-> <<>>, deleted_count |-> 0]
    ELSE [collection |-> CollectionDelete(coll, ids),
          deleted_count |-> Len(ids)]

\* delete_document: the collection afterwards and the number returned.
delete_document(coll, document_id) ==
    LET ids == CollectionGetIds(coll, document_id) IN
    IF ids = <<>> THEN [collection |-> coll, deleted_count |-> 0]
    ELSE [collection |-> CollectionDelete(coll, ids),
          deleted_count |-> Len(ids)]

\* The loop of list_documents: the dict documents, as the list of its values in
\* insertion order.
RECURSIVE GroupByDocument(_, _)
GroupByDocument(metadatas, documents) ==
    IF metadatas = <<>> THEN documents
    ELSE LET metadata == Head(metadatas)
             doc_id == metadata.document_id
             known == {documents[j].document_id : j \in 1..Len(documents)}
         IN GroupByDocument(
                Tail(metadatas),
                IF doc_id \notin known
                THEN Append(documents,
                            [document_id |-> doc_id,
                             filename |-> metadata.filename,
                             upload_time |-> metadata.upload_time,
                             chunk_count |-> metadata.total_chunks])
                ELSE documents)

list_documentsPerChunk(coll) ==
    [j \in 1..Len(coll) |->
        [document_id |-> coll[j].metadata.document_id,
         filename |-> coll[j].metadata.filename,
         upload_time |-> coll[j].metadata.upload_time,
         chunk_count |-> coll[j].metadata.total_chunks]]

\* list_documents
list_documents(coll) ==
    GroupByDocument([j \in 1..Len(coll) |-> coll[j].metadata], <<>>)

\* get_document_count
get_document_count(coll) == Len(list_documents(coll))

\* get_chunk_count: collection.count()
get_chunk_count(coll) == Len(coll)

----------------------------------------------------------------------------
(* RAGPipeline.  A Python string is a sequence of fragments, each a TLA+     *)
(* string: a character of a chunk or of a question, or a literal.           *)

\* sep.join(parts)
RECURSIVE Join(_, _)
Join(parts, sep) ==
    IF parts = <<>> THEN <<>>
    ELSE IF Len(parts) = 1 THEN parts[1]
    ELSE parts[1] \o sep \o Join(Tail(parts), sep)

\* zip(documents, metadatas[, distances]) stops with the shortest list.
ZipLen3(a, b, c) == MinOf({Len(a), Len(b), Len(c)})

\* The block headed by the enumerate index itself.
ContextPieceZeroBased(k, doc, metadata) ==
    <<"[Source ", ToString(k), ": ", metadata.filename, "]", "\n">>
        \o doc \o <<"\n">>

\* f"[Source {i+1}: {metadata['filename']}]\n{doc}\n" for enumerate index k
ContextPiece(k, doc, metadata) ==
    <<"[Source ", ToString(k + 1), ": ", metadata.filename, "]", "\n">>
        \o doc \o <<"\n">>

NoContext == <<"No relevant context found.">>

\* _build_context
build_context(search_results) ==
    IF search_results.documents = <<>> \/ search_results.documents[1] = <<>>
    THEN NoContext
    ELSE LET documents == search_results.documents[1]
             metadatas == search_results.metadatas[1]
             n == ZipLen3(documents, metadatas, documents)
         IN Join([k \in 1..n |-> ContextPiece(k - 1, documents[k], metadatas[k])],
                 <<"\n">>)

\* _build_prompt: the fixed template around the context and the question.
build_prompt(query, context) ==
    <<"You are a helpful AI assistant for an e-commerce platform. Answer the user's question based on the provided context from product documents.",
      "\n", "\n", "Context from documents:", "\n">>
        \o context
        \o <<"\n", "\n", "User Question: ">>
        \o query
        \o <<"\n", "\n",
             "Instructions:", "\n",
             "- Answer the question using ONLY the information from the context above", "\n",
             "- If the context doesn't contain enough information to answer, say \"I don't have enough information in the documents to answer this question.\"", "\n",
             "- Be concise and accurate", "\n",
             "- If referencing specific products or features, mention the source document", "\n",
             "\n", "Answer:">>

\* A source's content keeps this many characters of a longer chunk.
TruncateLen == 200

similarityUnclamped(distance) == Unit - distance

\* similarity_score = 1.0 - distance if distance <= 1.0 else 0.0
similarity_score(distance) ==
    IF distance <= Unit THEN Unit - distance ELSE 0

\* 2^n, and 2^n modulo m.
RECURSIVE Pow2(_)
Pow2(n) == IF n = 0 THEN 1 ELSE 2 * Pow2(n - 1)

RECURSIVE Pow2Mod(_, _)
Pow2Mod(n, m) == IF n = 0 THEN 1 % m ELSE (2 * Pow2Mod(n - 1, m)) % m

\* The binade of the distance d/Unit, 0 < d < Unit: the least k >= 0 with
\* d/Unit >= 2^-(k+1).  The float of the distance is a multiple of 2^-(53+k).
RECURSIVE Binade(_, _)
Binade(d, k) == IF d * Pow2(k + 1) >= Unit THEN k ELSE Binade(d, k + 1)

\* 1.0 - distance in binary floating point (53 bits, round to nearest, ties to
\* even), for the distance d/Unit with 0 < d < Unit: the sign of the float
\* result minus the exact (Unit - d)/Unit.  The float of the distance is
\* M / 2^(53+k) with Unit * M = d * 2^(53+k) + rho; the difference 1 - M/2^(53+k)
\* is rounded to a multiple of 2^-53, which its lowest k bits decide.
FloatErrorSign(d) ==
    LET k == Binade(d, 0)
        r == (d * Pow2Mod(53 + k, Unit)) % Unit
        rho == IF r < Unit \div 2 THEN 0 - r ELSE Unit - r
        Q == Unit * Pow2(k)
        m2 == (((Pow2(k) * ((d * Pow2Mod(53, 2 * Unit)) % (2 * Unit))) + rho)
                  % (2 * Q)) \div Unit
        n2 == (Pow2(k + 1) - m2) % Pow2(k + 1)
        low == n2 % Pow2(k)
        hbit == n2 \div Pow2(k)
        up == IF k = 0 THEN 0
              ELSE IF low > Pow2(k - 1) \/ (low = Pow2(k - 1) /\ hbit = 1)
                   THEN 1 ELSE 0
        v == (0 - rho) - low * Unit + up * Q
    IN IF v > 0 THEN 1 ELSE IF v < 0 THEN 0 - 1 ELSE 0

\* round(similarity_score, 3) of the score x/Unit, where similarity_score is
\* the float 1.0 - distance (or 0.0): the thousandth nearest to the float.  A
\* score that ends in 5 ten-thousandths goes up or down as the float lies
\* above or below it, and to the even thousandth when the float is exact.
Round3(x) ==
    LET q == x \div 10
        r == x % 10
    IN IF r < 5 THEN q * 10
       ELSE IF r > 5 THEN (q + 1) * 10
       ELSE LET sign == FloatErrorSign(Unit - x)
            IN IF sign > 0 THEN (q + 1) * 10
               ELSE IF sign < 0 THEN q * 10
               ELSE IF q % 2 = 0 THEN q * 10 ELSE (q + 1) * 10

\* The content cut as soon as the chunk reaches the limit.
SourceContentAtLimit(doc) ==
    IF Len(doc) >= TruncateLen THEN Slice(doc, 0, TruncateLen) \o <<"...">> ELSE doc

\* doc[:200] + "..." if len(doc) > 200 else doc
SourceContent(doc) ==
    IF Len(doc) > TruncateLen THEN Slice(doc, 0, TruncateLen) \o <<"...">> ELSE doc

\* The loop that fills sources, from pair k on.
RECURSIVE SourcesLoop(_, _, _, _, _, _)
SourcesLoop(documents, metadatas, distances, k, n, sources) ==
    IF k > n THEN sources
    ELSE SourcesLoop(documents, metadatas, distances, k + 1, n,
            Append(sources,
                   [document_id |-> metadatas[k].document_id,
                    filename |-> metadatas[k].filename,
                    chunk_index |-> metadatas[k].chunk_index,
                    relevance_score |-> Round3(similarity_score(distances[k])),
                    content |-> SourceContent(documents[k])]))

\* The source extraction of generate_response (search results always carry
\* 'distances').
ExtractSources(search_results) ==
    IF search_results.documents = <<>> \/ search_results.documents[1] = <<>>
    THEN <<>>
    ELSE LET documents == search_results.documents[1]
             metadatas == search_results.metadatas[1]
             distances == search_results.distances[1]
         IN SourcesLoop(documents, metadatas, distances, 1,
                        ZipLen3(documents, metadatas, distances), <<>>)

\* The try block of generate_response: the backend is a black box that answers
\* with some text or raises.
GenerateAnswer(prompt, backend) ==
    IF backend.ok THEN Strip(backend.response)
    ELSE <<"Error generating response: ", backend.error>>

generate_responseSourcesInTry(query, search_results, backend, clock) ==
    [answer |-> GenerateAnswer(build_prompt(query, build_context(search_results)),
                               backend),
     sources |-> IF backend.ok THEN ExtractSources(search_results) ELSE <<>>,
     query |-> query,
     timestamp |-> clock]

\* generate_response
generate_response(query, search_results, backend, clock) ==
    [answer |-> GenerateAnswer(build_prompt(query, build_context(search_results)),
                               backend),
     sources |-> ExtractSources(search_results),
     query |-> query,
     timestamp |-> clock]

----------------------------------------------------------------------------
(* The routes *)

\* settings.top_k_results
TopKDefault == 3

ALLOWED_EXTENSIONS == {".txt", ".md", ".pdf"}

\* os.path.splitext(filename.lower())[1]
LowerExtension(filename) ==
    CASE filename = "a.txt" -> ".txt"
      [] filename = "B.MD" -> ".md"
      [] filename = "c.exe" -> ".exe"

\* validate_file_extension
validate_file_extension(filename) == LowerExtension(filename) \in ALLOWED_EXTENSIONS

\* The uploads' contents: " A. B. C.\n", "ab ab.\r\na b. ba" (a file with a
\* CR LF line end) and a blank file.
RawExample == <<" ">> \o ExampleText \o <<"\n">>
RawLong ==
    <<"a", "b", " ", "a", "b", ".", "\r", "\n", "a", " ", "b", ".", " ", "b", "a">>
RawBlank == <<" ", "\f", "\r", "\n">>

\* The upload requests: two files with text, a blank file, a file of a type
\* that is not allowed, and four requests in which a step fails.
UploadRequests ==
    { [filename |-> "a.txt", raw |-> RawExample, fault |-> "none"],
      [filename |-> "B.MD", raw |-> RawLong, fault |-> "none"],
      [filename |-> "a.txt", raw |-> RawBlank, fault |-> "none"],
      [filename |-> "c.exe", raw |-> RawExample, fault |-> "none"],
      [filename |-> "a.txt", raw |-> RawExample, fault |-> "read"],
      [filename |-> "B.MD", raw |-> RawLong, fault |-> "embed"],
      [filename |-> "a.txt", raw |-> RawExample, fault |-> "index"],
      [filename |-> "a.txt", raw |-> RawExample, fault |-> "save"] }

\* The questions asked.
Queries == { <<"a", "?">>, <<"a">>, <<"a", " ", "b">> }

\* What the generation backend does with a prompt: it answers or it raises.
BackendAnswers == [ok |-> TRUE, response |-> <<" ", "It is B.", "\n">>]
BackendRaises == [ok |-> FALSE, error |-> "connection refused"]
Backends == {BackendAnswers, BackendRaises}

\* The query requests: one question with the least and the largest top_k,
\* every question without top_k (0: none given), one of them also against the
\* backend that raises, and one request in which the embedder raises.
QueryRequests ==
    [query : {<<"a", "?">>}, top_k : {1, MaxTopK}, backend : {BackendAnswers},
     fault : {"none"}]
        \cup [query : Queries, top_k : {0}, backend : {BackendAnswers},
              fault : {"none"}]
        \cup {[query |-> <<"a", " ", "b">>, top_k |-> 0, backend |-> BackendRaises,
                fault |-> "none"],
               [query |-> <<"a">>, top_k |-> 0, backend |-> BackendAnswers,
                fault |-> "embed"]}

\* f.read() of a file opened in text mode: "\r\n" and a lone "\r" are read
\* as "\n".
RECURSIVE UniversalNewlines(_)
UniversalNewlines(raw) ==
    IF raw = <<>> THEN raw
    ELSE IF Head(raw) = "\r"
    THEN IF Len(raw) >= 2 /\ raw[2] = "\n"
         THEN <<"\n">> \o UniversalNewlines(SubSeq(raw, 3, Len(raw)))
         ELSE <<"\n">> \o UniversalNewlines(Tail(raw))
    ELSE <<Head(raw)>> \o UniversalNewlines(Tail(raw))

\* extract_text: the file's text, or raised (the file cannot be read, or its
\* extension is none of the three).
extract_text(ext, raw, readable) ==
    IF ext = ".pdf"
    THEN IF readable THEN [raised |-> FALSE, value |-> Strip(raw \o <<"\n">>)]
         ELSE [raised |-> TRUE, value |-> <<>>]
    ELSE IF ext \in {".txt", ".md"}
    THEN IF readable
         THEN [raised |-> FALSE, value |-> Strip(UniversalNewlines(raw))]
         ELSE [raised |-> TRUE, value |-> <<>>]
    ELSE [raised |-> TRUE, value |-> <<>>]

\* process_document: (chunks, metadata), or raised.
process_document(ext, raw, readable, document_id, filename, clock) ==
    LET extracted == extract_text(ext, raw, readable)
        chunked == chunk_text(extracted.value, chunk_size, chunk_overlap)
    IN IF extracted.raised \/ chunked.raised
       THEN [raised |-> TRUE, chunks |-> <<>>, metadata |-> [upload_time |-> clock]]
       ELSE [raised |-> FALSE,
             chunks |-> chunked.value,
             metadata |-> [document_id |-> document_id,
                           filename |-> filename,
                           chunk_count |-> Len(chunked.value),
                           upload_time |-> clock]]

\* upload_document from the chunks on: empty check, embedding, add_documents.
UploadProcessed(filename, fault, doc_id, processed) ==
    IF processed.raised
    THEN /\ result' = [op |-> "upload", status |-> 500,
                       detail |-> "Failed to process document: extraction",
                       count_before |-> get_chunk_count(collection),
                       collection_before |-> collection]
         /\ files' = files \cup {doc_id}
         /\ UNCHANGED <<collection, live, removed>>
    ELSE IF processed.chunks = <<>>
    THEN \* delete_upload_file, then 400
         /\ result' = [op |-> "upload", status |-> 400,
                       detail |-> "No text content could be extracted from the document",
                       count_before |-> get_chunk_count(collection),
                       collection_before |-> collection]
         /\ files' = files \ {doc_id}
         /\ UNCHANGED <<collection, live, removed>>
    ELSE IF fault = "embed"
    THEN /\ result' = [op |-> "upload", status |-> 500,
                       detail |-> "Failed to process document: embedding",
                       count_before |-> get_chunk_count(collection),
                       collection_before |-> collection]
         /\ files' = files \cup {doc_id}
         /\ UNCHANGED <<collection, live, removed>>
    ELSE IF fault = "index"
    THEN \* collection.add raises: the one batch is not stored
         /\ result' = [op |-> "upload", status |-> 500,
                       detail |-> "Failed to process document: index",
                       count_before |-> get_chunk_count(collection),
                       collection_before |-> collection]
         /\ files' = files \cup {doc_id}
         /\ UNCHANGED <<collection, live, removed>>
    ELSE /\ collection' = add_documents(collection,
                              processed.chunks,
                              generate_embeddings(processed.chunks),
                              doc_id, filename,
                              processed.metadata.upload_time)
         /\ files' = files \cup {doc_id}
         /\ result' = [op |-> "upload", status |-> 201,
                       body |-> [document_id |-> doc_id,
                                 filename |-> filename,
                                 chunk_count |-> Len(processed.chunks),
                                 upload_time |-> processed.metadata.upload_time],
                       count_before |-> get_chunk_count(collection),
                       collection_before |-> collection]
         /\ live' = live \cup {[document_id |-> doc_id,
                                chunk_count |-> Len(processed.chunks)]}
         /\ removed' = removed \ {doc_id}

\* POST /api/documents/upload, up to the await in save_upload_file: the
\* extension is checked, the id is made, the file is opened for writing, and
\* the handler waits for upload_file.read() while other requests are served.
\* fault: what fails in this request, if anything ("save": the read of the
\* upload raises, "read": the saved file cannot be read, "embed": the embedder
\* raises, "index": collection.add raises).
UploadDocument(filename, raw, fault) ==
    IF ~validate_file_extension(filename)
    THEN \* save_upload_file raises 400 before an id is generated
         /\ result' = [op |-> "upload", status |-> 400,
                       detail |-> "File type not supported.",
                       count_before |-> get_chunk_count(collection),
                       collection_before |-> collection]
         /\ UNCHANGED <<collection, files, uuids, now, live, removed, uploads>>
    ELSE /\ uuids < MaxUploads
         /\ uuids' = uuids + 1
         /\ files' = files \cup {uuids + 1}
         /\ uploads' = uploads \cup {[document_id |-> uuids + 1,
                                      filename |-> filename,
                                      raw |-> raw,
                                      fault |-> fault]}
         /\ UNCHANGED <<collection, now, result, live, removed>>

\* upload_document from the return of upload_file.read() on, for the waiting
\* upload u: the file is written, processed, embedded and indexed.
UploadResume(u) ==
    /\ uploads' = uploads \ {u}
    /\ UNCHANGED uuids
    /\ IF u.fault = "save"
       THEN \* save_upload_file raises 500; the file it opened stays
            /\ result' = [op |-> "upload", status |-> 500,
                          detail |-> "Failed to save file",
                          count_before |-> get_chunk_count(collection),
                          collection_before |-> collection]
            /\ UNCHANGED <<collection, files, now, live, removed>>
       ELSE /\ now' = now + 1
            /\ UploadProcessed(u.filename, u.fault, u.document_id,
                   process_document(LowerExtension(u.filename), u.raw,
                                    u.fault # "read", u.document_id,
                                    u.filename, now + 1))

\* DELETE /api/documents/{document_id}
DeleteDocument(document_id) ==
    LET deleted == delete_document(collection, document_id) IN
    /\ collection' = deleted.collection
    /\ IF deleted.deleted_count = 0
       THEN /\ result' = [op |-> "delete", status |-> 404,
                          document_id |-> document_id,
                          deleted_count |-> 0,
                          count_before |-> get_chunk_count(collection),
                          collection_before |-> collection]
            /\ UNCHANGED <<live, removed>>
       ELSE /\ result' = [op |-> "delete", status |-> 200,
                          document_id |-> document_id,
                          deleted_count |-> deleted.deleted_count,
                          count_before |-> get_chunk_count(collection),
                          collection_before |-> collection]
            /\ live' = {l \in live : l.document_id # document_id}
            /\ removed' = removed \cup {document_id}
    /\ UNCHANGED <<files, uuids, now>>

\* GET /api/documents
ListDocuments ==
    /\ result' = [op |-> "list", status |-> 200,
                  body |-> [documents |-> list_documents(collection),
                            total_count |-> Len(list_documents(collection))],
                  count_before |-> get_chunk_count(collection),
                       collection_before |-> collection]
    /\ UNCHANGED <<collection, files, uuids, now, live, removed>>

IndexNeverEmpty(coll) == FALSE

\* if vector_store.get_chunk_count() == 0
IndexIsEmpty(coll) == get_chunk_count(coll) = 0

\* QueryResponse(**response_data): SourceDocument wants 0 <= relevance_score <= 1.
ValidResponse(response) ==
    \A j \in 1..Len(response.sources) :
        /\ response.sources[j].relevance_score >= 0
        /\ response.sources[j].relevance_score <= Unit

\* collection.query that also stores the query vector as a record.
CollectionQueryStoreKeepsQuery(coll, query_embedding) ==
    Append(coll, [id |-> <<"query">>,
                  embedding |-> query_embedding,
                  document |-> <<>>,
                  metadata |-> [document_id |-> 0, filename |-> "",
                                chunk_index |-> 0, total_chunks |-> 0,
                                upload_time |-> 0]])

\* The collection after search's collection.query(...): a read, the records
\* stay as they are.
CollectionQueryStore(coll, query_embedding) == coll

\* query_documents from the response data on: QueryResponse(**response_data).
QueryRespond(query, top_k, backend, search_results, response_data) ==
    IF ValidResponse(response_data)
    THEN result' = [op |-> "query", status |-> 200,
                    body |-> response_data,
                    search_results |-> search_results,
                    request |-> [query |-> query, top_k |-> top_k],
                    backend_ok |-> backend.ok,
                    count_before |-> get_chunk_count(collection),
                       collection_before |-> collection]
    ELSE result' = [op |-> "query", status |-> 500,
                    detail |-> "Failed to process query: validation",
                    search_results |-> search_results,
                    request |-> [query |-> query, top_k |-> top_k],
                    backend_ok |-> backend.ok,
                    count_before |-> get_chunk_count(collection),
                       collection_before |-> collection]

\* query_documents from the search results on.
QueryGenerate(query, top_k, backend, search_results) ==
    QueryRespond(query, top_k, backend, search_results,
                 generate_response(query, search_results, backend, now))

\* POST /api/query.  top_k 0 stands for a request without top_k.
QueryDocuments(query, top_k, backend, fault) ==
    /\ IF IndexIsEmpty(collection)
       THEN result' = [op |-> "query", status |-> 400,
                       detail |-> "No documents have been indexed yet. Please upload documents first.",
                       count_before |-> get_chunk_count(collection),
                       collection_before |-> collection]
       ELSE IF fault = "embed"
       THEN result' = [op |-> "query", status |-> 500,
                       detail |-> "Failed to process query: embedding",
                       count_before |-> get_chunk_count(collection),
                       collection_before |-> collection]
       ELSE QueryGenerate(query, top_k, backend,
                search(collection, generate_embedding(query),
                       IF top_k # 0 THEN top_k ELSE TopKDefault))
    /\ collection' = IF IndexIsEmpty(collection) \/ fault = "embed"
                     THEN collection
                     ELSE CollectionQueryStore(collection,
                                               generate_embedding(query))
    /\ UNCHANGED <<files, uuids, now, live, removed>>

Init ==
    /\ LET p == DocumentProcessorInit(IndexChunkSize, IndexChunkOverlap) IN
          /\ chunk_size = p.chunk_size
          /\ chunk_overlap = p.chunk_overlap
    /\ text = <<>>
    /\ pc = "idle"
    /\ i = 0
    /\ chunks = <<>>
    /\ windows = <<>>
    /\ EmptyService

Upload ==
    /\ \E r \in UploadRequests : UploadDocument(r.filename, r.raw, r.fault)
    /\ UNCHANGED <<chunkVars, writers>>

Resume ==
    /\ \E u \in uploads : UploadResume(u)
    /\ UNCHANGED <<chunkVars, writers>>

Delete ==
    /\ \E document_id \in 0..uuids : DeleteDocument(document_id)
    /\ UNCHANGED <<chunkVars, writers, uploads>>

List ==
    /\ ListDocuments
    /\ UNCHANGED <<chunkVars, writers, uploads>>

Query ==
    /\ \E r \in QueryRequests : QueryDocuments(r.query, r.top_k, r.backend, r.fault)
    /\ UNCHANGED <<chunkVars, writers, uploads>>

Next == Upload \/ Resume \/ Delete \/ List \/ Query

Spec == Init /\ [][Next]_vars

----------------------------------------------------------------------------
(* Claims about the index and the query path *)

\* The document ids that have a record in the collection.
StoredDocumentIds == {collection[j].metadata.document_id : j \in 1..Len(collection)}

\* The positions of the records of document d.
RecordsOf(d) == {j \in 1..Len(collection) : collection[j].metadata.document_id = d}

\* C4: after any sequence of uploads and deletes, the chunk_index values stored
\* for a document with n records are exactly 0..n-1, and each of its records
\* has total_chunks = n.
C4_ChunkIndices ==
    \A d \in StoredDocumentIds :
        LET n == Cardinality(RecordsOf(d)) IN
        /\ {collection[j].metadata.chunk_index : j \in RecordsOf(d)} = 0..(n - 1)
        /\ \A j \in RecordsOf(d) : collection[j].metadata.total_chunks = n

C4_Witness ==
    /\ removed # {}
    /\ \E d \in StoredDocumentIds : Cardinality(RecordsOf(d)) = 5

\* The top_k values a search is tried with in a state: every one a request may
\* carry, and one that asks for the whole collection.
ProbeTopK == (1..MaxTopK) \cup {Len(collection) + 1}

\* C5: once a delete of document_id has returned, no search returns a chunk of
\* that document and the document list has no entry for it (until the id is
\* ingested again), and the chunk count is lower than before the delete by
\* exactly the number the delete returned.
C5_DeleteComplete ==
    /\ \A d \in removed :
          /\ \A q \in Queries, k \in ProbeTopK :
                LET found == search(collection, generate_embedding(q), k).metadatas[1]
                IN \A r \in 1..Len(found) : found[r].document_id # d
          /\ \A j \in 1..Len(list_documents(collection)) :
                list_documents(collection)[j].document_id # d
    /\ result.op = "delete" =>
          get_chunk_count(collection) = result.count_before - result.deleted_count

C5_Witness ==
    /\ result.op = "delete"
    /\ result.deleted_count = 5
    /\ result.document_id \in removed
    /\ collection # <<>>

Ascending(distances) ==
    \A r \in 1..(Len(distances) - 1) : distances[r] <= distances[r + 1]

\* C6: a search with top_k > 0 returns min(top_k, number of chunks) results in
\* ascending order of distance: fewer than top_k only when the index holds
\* fewer chunks, and none when the index is empty.
C6_SearchTopK ==
    /\ \A q \in Queries, k \in ProbeTopK :
          LET found == search(collection, generate_embedding(q), k) IN
          /\ Len(found.ids[1]) = IF k < Len(collection) THEN k ELSE Len(collection)
          /\ Len(found.documents[1]) = Len(found.ids[1])
          /\ Len(found.distances[1]) = Len(found.ids[1])
          /\ Ascending(found.distances[1])
          /\ (Len(found.ids[1]) < k => Len(collection) < k)
          /\ (collection = <<>> => found.ids[1] = <<>>)
    /\ (result.op = "query" /\ result.status = 200) =>
          LET k == IF result.request.top_k # 0 THEN result.request.top_k
                   ELSE TopKDefault
          IN /\ Len(result.search_results.ids[1]) =
                   IF k < Len(collection) THEN k ELSE Len(collection)
             /\ Ascending(result.search_results.distances[1])

C6_Witness ==
    /\ result.op = "query"
    /\ result.status = 200
    /\ result.request.top_k > Len(collection)
    /\ Len(result.search_results.ids[1]) = Len(collection)
    /\ \E r \in 1..(Len(collection) - 1) :
          result.search_results.distances[1][r]
              < result.search_results.distances[1][r + 1]

RECURSIVE SumCounts(_)
SumCounts(S) ==
    IF S = {} THEN 0
    ELSE LET l == CHOOSE x \in S : TRUE IN l.chunk_count + SumCounts(S \ {l})

\* C7: list_documents has exactly one entry per document id among the stored
\* chunks, get_document_count is the number of those ids and get_chunk_count
\* the number of chunks the answered uploads that are still stored reported;
\* after uploads of 3 and of 5 chunks into an empty index the counts are 8 and 2.
C7_ListAndCounts ==
    LET listed == list_documents(collection) IN
    /\ {listed[j].document_id : j \in 1..Len(listed)} = StoredDocumentIds
    /\ Len(listed) = Cardinality(StoredDocumentIds)
    /\ get_document_count(collection) = Cardinality(StoredDocumentIds)
    /\ StoredDocumentIds = {l.document_id : l \in live}
    /\ get_chunk_count(collection) = SumCounts(live)
    /\ (Cardinality(live) = 2 /\ {l.chunk_count : l \in live} = {3, 5}) =>
          /\ get_chunk_count(collection) = 8
          /\ get_document_count(collection) = 2

C7_Witness ==
    /\ removed = {}
    /\ {l.chunk_count : l \in live} = {3, 5}
    /\ get_chunk_count(collection) = 8
    /\ get_document_count(collection) = 2

\* clamp(x, 0, 1)
Clamp(x) == IF x < 0 THEN 0 ELSE IF x > Unit THEN Unit ELSE x

\* C8: every search result gets a source whose relevance_score is
\* clamp(1 - distance, 0, 1) rounded to three decimals, so the score lies in
\* [0, 1] and a distance above 1 gives 0; no query fails on a score.
C8_ScoreBounds ==
    (result.op = "query" /\ "search_results" \in DOMAIN result) =>
        /\ result.status = 200
        /\ Len(result.body.sources) = Len(result.search_results.distances[1])
        /\ \A j \in 1..Len(result.body.sources) :
              LET score == result.body.sources[j].relevance_score
                  exact == Clamp(Unit - result.search_results.distances[1][j])
              IN /\ 0 <= score /\ score <= Unit
                 /\ score % 10 = 0
                 /\ 2 * (score - exact) <= 10
                 /\ 2 * (exact - score) <= 10
                 /\ (result.search_results.distances[1][j] > Unit => score = 0)

C8_Witness ==
    /\ result.op = "query"
    /\ result.status = 200
    /\ \E j \in 1..Len(result.body.sources) :
          /\ result.search_results.distances[1][j] > Unit
          /\ result.body.sources[j].relevance_score = 0
    /\ \E j \in 1..Len(result.body.sources) :
          /\ result.body.sources[j].relevance_score > 0
          /\ result.body.sources[j].relevance_score < Unit

\* The sources of a search result, stated per position.
ExpectedSources(search_results) ==
    [j \in 1..Len(search_results.documents[1]) |->
        [document_id |-> search_results.metadatas[1][j].document_id,
         filename |-> search_results.metadatas[1][j].filename,
         chunk_index |-> search_results.metadatas[1][j].chunk_index,
         relevance_score |-> Round3(Clamp(Unit - search_results.distances[1][j])),
         content |-> IF Len(search_results.documents[1][j]) <= TruncateLen
                     THEN search_results.documents[1][j]
                     ELSE SubSeq(search_results.documents[1][j], 1, TruncateLen)
                              \o <<"...">>]]

\* C9: when the generation backend fails, the query still answers 200 with an
\* answer that describes the failure and with the sources and the query it
\* returns for the same search results when the backend answers.
C9_GenerationFailure ==
    (result.op = "query" /\ "search_results" \in DOMAIN result /\ ~result.backend_ok) =>
        /\ result.status = 200
        /\ result.body.answer = <<"Error generating response: ", BackendRaises.error>>
        /\ result.body.query = result.request.query
        /\ result.body.sources = ExpectedSources(result.search_results)
        /\ LET answered == generate_response(result.request.query,
                                             result.search_results,
                                             BackendAnswers, now)
           IN /\ result.body.sources = answered.sources
              /\ result.body.query = answered.query

C9_Witness ==
    /\ result.op = "query"
    /\ result.status = 200
    /\ ~result.backend_ok
    /\ Len(result.body.sources) >= 2

\* C10 as stated: a query against an index with no chunks does not fail; it
\* answers with an empty sources list.
C10_EmptyIndexAnswers ==
    (result.op = "query" /\ result.count_before = 0) =>
        /\ result.status = 200
        /\ result.body.sources = <<>>

\* C10, amended: a query against an index with no chunks is refused with
\* status 400 ("No documents have been indexed yet. Please upload documents
\* first.") before any search or generation; no answer and no sources are
\* returned.
C10_EmptyIndexRefused ==
    (result.op = "query" /\ result.count_before = 0) =>
        /\ result.status = 400
        /\ result.detail = "No documents have been indexed yet. Please upload documents first."
        /\ "body" \notin DOMAIN result
        /\ "search_results" \notin DOMAIN result

C10_Witness ==
    /\ result.op = "query"
    /\ result.count_before = 0
    /\ result.status = 400
    /\ removed # {}

\* ---------------------------------------------------------------------------
\* C11: an upload that does not answer 201 (file type refused, extraction
\* failure, no chunks, embedding failure, index failure) leaves the collection
\* exactly as it was before the request, and an upload that answers 201 with
\* chunk_count n appends exactly n records, those of the new document, with
\* ids <document_id>_chunk_0 .. <document_id>_chunk_(n-1), after the records
\* that were already there.
C11_IngestAllOrNothing ==
    result.op = "upload" =>
        LET before == result.collection_before IN
        IF result.status = 201
        THEN LET n == result.body.chunk_count
                 d == result.body.document_id
             IN /\ n >= 1
                /\ Len(collection) = Len(before) + n
                /\ SubSeq(collection, 1, Len(before)) = before
                /\ \A j \in 1..Len(before) : before[j].metadata.document_id # d
                /\ \A k \in 1..n :
                      /\ collection[Len(before) + k].id = ChunkId(d, k - 1)
                      /\ collection[Len(before) + k].metadata.document_id = d
                      /\ collection[Len(before) + k].metadata.filename
                            = result.body.filename
        ELSE collection = before

\* An upload failed at the index while chunks of an earlier upload were stored.
C11_Witness ==
    /\ result.op = "upload"
    /\ result.status = 500
    /\ result.detail = "Failed to process document: index"
    /\ result.collection_before # <<>>

\* ---------------------------------------------------------------------------
\* C13: deleting a document_id that has no record in the collection returns 0
\* and leaves every stored record (id, text, embedding, metadata, order) as it
\* was before the request.
C13_DeleteAbsent ==
    (/\ result.op = "delete"
     /\ \A j \in 1..Len(result.collection_before) :
           result.collection_before[j].metadata.document_id # result.document_id)
    => /\ result.deleted_count = 0
       /\ collection = result.collection_before

\* A document_id without records was deleted while other records were stored.
C13_Witness ==
    /\ result.op = "delete"
    /\ result.deleted_count = 0
    /\ result.collection_before # <<>>
    /\ collection = result.collection_before

\* ---------------------------------------------------------------------------
\* C15: a query request, whatever its question and top_k, whatever it answers
\* (400 on the empty index, 500, or 200 with the generator's answer or with the
\* error text of a failed generation), leaves the collection as it was: the same
\* records in the same order, each with the same id, text, embedding and
\* metadata.
C15_QueryReadOnly ==
    result.op = "query" => collection = result.collection_before

\* A query was answered from stored records although generation failed.
C15_Witness ==
    /\ result.op = "query"
    /\ result.status = 200
    /\ ~result.backend_ok
    /\ result.body.sources # <<>>
    /\ collection # <<>>

\* ---------------------------------------------------------------------------
\* C17: after any sequence of uploads and deletes, every entry that
\* list_documents returns reports as chunk_count the number of records the
\* collection holds for that entry's document_id.
C17_ListedChunkCount ==
    result.op = "list" =>
        LET stored == result.collection_before
            listed == result.body.documents
        IN \A j \in 1..Len(listed) :
              listed[j].chunk_count
                = Cardinality({k \in 1..Len(stored) :
                     stored[k].metadata.document_id = listed[j].document_id})

\* Documents were listed after an upload and a delete, one of 5 chunks among them.
C17_Witness ==
    /\ result.op = "list"
    /\ removed # {}
    /\ \E j \in 1..Len(result.body.documents) :
          result.body.documents[j].chunk_count = 5
    /\ Len(result.collection_before) = 5

\* ---------------------------------------------------------------------------
\* ceil(a / b) for b > 0
CeilDiv(a, b) == (a + b - 1) \div b

\* C18: with 0 <= overlap < size, chunk_text visits at most
\* ceil(len(text) / (size - overlap)) windows, the first at offset 0 and each
\* next one size - overlap further on, it holds at most as many chunks as it
\* visited windows, and until it has returned it can always take its next step.
C18_BoundedWindows ==
    ValidConfig =>
        LET step == chunk_size - chunk_overlap IN
        /\ Len(windows) <= CeilDiv(Len(text), step)
        /\ \A k \in 1..Len(windows) : windows[k] = (k - 1) * step
        /\ \A k \in 1..(Len(windows) - 1) : windows[k + 1] > windows[k]
        /\ Len(chunks) <= Len(windows)
        /\ pc \in {"call", "loop", "done"}
        /\ (pc # "done" => ENABLED NextChunk)

\* chunk_text returned after visiting as many windows as the bound allows,
\* with an overlap, and left a blank window out.
C18_Witness ==
    /\ pc = "done"
    /\ ValidConfig
    /\ chunk_overlap >= 1
    /\ Len(windows) >= 2
    /\ Len(windows) = CeilDiv(Len(text), chunk_size - chunk_overlap)
    /\ Len(chunks) < Len(windows)

----------------------------------------------------------------------------
(* RAGPipeline.generate_response over chunks of the configured size *)

\* settings.chunk_size and settings.chunk_overlap
SettingsChunkSize == 500
SettingsChunkOverlap == 100

\* The most documents in the index of this specification.
MaxPassages == 3

\* A chunk of n characters (no whitespace at either end for the lengths used).
Passage(n) ==
    [j \in 1..n |-> IF j % 7 = 0 THEN " " ELSE IF j % 2 = 0 THEN "b" ELSE "a"]

\* The lengths of stored chunks: one character, the limit of a source's
\* content, and one more.
PassageLens == {1, TruncateLen, TruncateLen + 1}

\* The indexed documents: one chunk each.
Passages == [filename : {"a.txt", "B.MD"}, len : PassageLens]

\* The collection after uploading the documents of ps one by one, with ids
\* 1..Len(ps).
RECURSIVE RagIndex(_)
RagIndex(ps) ==
    IF ps = <<>> THEN <<>>
    ELSE LET d == Len(ps)
             chunk == Passage(ps[d].len)
         IN add_documents(RagIndex(SubSeq(ps, 1, d - 1)),
                          <<chunk>>, generate_embeddings(<<chunk>>),
                          d, ps[d].filename, d)

RagQuery == <<"a", "?">>

InitRag ==
    /\ LET p == DocumentProcessorInit(SettingsChunkSize, SettingsChunkOverlap) IN
          /\ chunk_size = p.chunk_size
          /\ chunk_overlap = p.chunk_overlap
    /\ text = <<>>
    /\ pc = "idle"
    /\ i = 0
    /\ chunks = <<>>
    /\ windows = <<>>
    /\ \E m \in 0..MaxPassages : \E ps \in [1..m -> Passages] :
          /\ collection = RagIndex(ps)
          /\ files = 1..m
          /\ uuids = m
          /\ now = m
          /\ live = {[document_id |-> d, chunk_count |-> 1] : d \in 1..m}
    /\ removed = {}
    /\ writers = <<>>
    /\ uploads = {}
    /\ result = [op |-> "none", status |-> 0]

\* vector_store.search(query_embedding, top_k)
RagSearch ==
    /\ result.op = "none"
    /\ \E top_k \in 1..MaxTopK :
          result' = [op |-> "search", status |-> 0,
                     search_results |->
                         search(collection, generate_embedding(RagQuery), top_k)]
    /\ UNCHANGED <<collection, files, uuids, now, live, removed>>
    /\ UNCHANGED <<chunkVars, writers, uploads>>

\* generate_response from here on; context is its local variable.
RagRespond(search_results, backend) ==
    result' = [op |-> "generate", status |-> 0,
               search_results |-> search_results,
               context |-> build_context(search_results),
               body |-> generate_response(RagQuery, search_results, backend, now)]

\* rag_pipeline.generate_response(query, search_results)
RagGenerate ==
    /\ result.op = "search"
    /\ \E backend \in Backends : RagRespond(result.search_results, backend)
    /\ UNCHANGED <<collection, files, uuids, now, live, removed>>
    /\ UNCHANGED <<chunkVars, writers, uploads>>

NextRag == RagSearch \/ RagGenerate

SpecRag == InitRag /\ [][NextRag]_vars

----------------------------------------------------------------------------
(* Claims about the context and the sources *)

\* The retrieved chunk texts and their metadata, in retrieval order.
Retrieved ==
    IF result.search_results.documents = <<>> THEN <<>>
    ELSE [k \in 1..Len(result.search_results.documents[1]) |->
             [doc |-> result.search_results.documents[1][k],
              filename |-> result.search_results.metadatas[1][k].filename]]

\* The position in the context at which block k begins: a block is six header
\* fields, the chunk's characters and a line end, and a line end follows it
\* before the next block.
RECURSIVE BlockStart(_)
BlockStart(k) ==
    IF k = 1 THEN 1 ELSE BlockStart(k - 1) + Len(Retrieved[k - 1].doc) + 8

\* C14: the context built from m >= 1 retrieved chunks is m blocks in retrieval
\* order and nothing else, block k = 1..m being the header "[Source k: <filename
\* of chunk k>]", a line end, the text of chunk k and a line end, with one empty
\* line between consecutive blocks; built from no retrieved chunk it is
\* "No relevant context found.".
C14_ContextBlocks ==
    result.op = "generate" =>
        LET m == Len(Retrieved)
            ctx == result.context
        IN IF m = 0 THEN ctx = <<"No relevant context found.">>
           ELSE /\ Len(ctx) = BlockStart(m) + Len(Retrieved[m].doc) + 6
                /\ Cardinality({p \in 1..Len(ctx) : ctx[p] = "[Source "}) = m
                /\ \A k \in 1..m :
                      LET s == BlockStart(k)
                          n == Len(Retrieved[k].doc)
                      IN /\ SubSeq(ctx, s, s + 5)
                               = <<"[Source ", ToString(k), ": ",
                                   Retrieved[k].filename, "]", "\n">>
                         /\ SubSeq(ctx, s + 6, s + 5 + n) = Retrieved[k].doc
                         /\ ctx[s + 6 + n] = "\n"
                         /\ (k < m => ctx[s + 7 + n] = "\n")

\* A context was built from three chunks of two different files.
C14_Witness ==
    /\ result.op = "generate"
    /\ Len(Retrieved) = 3
    /\ {Retrieved[k].filename : k \in 1..3} = {"a.txt", "B.MD"}
    /\ result.context # <<"No relevant context found.">>

\* C16: the content of the source of each retrieved chunk is the chunk's whole
\* text when that has at most 200 characters, and otherwise its first 200
\* characters followed by "...", while the context holds the whole text of
\* every retrieved chunk.
C16_SourceTruncation ==
    result.op = "generate" =>
        /\ Len(result.body.sources) = Len(Retrieved)
        /\ \A k \in 1..Len(Retrieved) :
              LET doc == Retrieved[k].doc
                  content == result.body.sources[k].content
              IN /\ Len(doc) <= 200 => content = doc
                 /\ Len(doc) > 200 =>
                       /\ Len(content) = 201
                       /\ \A p \in 1..200 : content[p] = doc[p]
                       /\ content[201] = "..."
                 /\ \E p \in 1..Len(result.context) :
                       SubSeq(result.context, p, p + Len(doc) - 1) = doc

\* Sources were made of a chunk of exactly 200 characters and of a longer one.
C16_Witness ==
    /\ result.op = "generate"
    /\ \E k \in 1..Len(Retrieved) : Len(Retrieved[k].doc) = 200
    /\ \E k \in 1..Len(Retrieved) :
          /\ Len(Retrieved[k].doc) = 201
          /\ Len(result.body.sources[k].content) = 201

----------------------------------------------------------------------------
(* Two writes on the vector store, on different documents, step by step *)

\* The document ids: 1 and 2 are written to, 3 is a document nobody touches.
ConcDocuments == {1, 2, 3}
ConcWriters == {1, 2}

ConcFilename(d) == IF d = 2 THEN "B.MD" ELSE "a.txt"
ConcRaw(d) == IF d = 2 THEN RawLong ELSE RawExample

\* The chunks process_document makes of document d's file.
ConcChunks(d) ==
    process_document(LowerExtension(ConcFilename(d)), ConcRaw(d), TRUE,
                     d, ConcFilename(d), d).chunks

\* add_documents for document d.
ConcInsert(coll, d) ==
    add_documents(coll, ConcChunks(d), generate_embeddings(ConcChunks(d)),
                  d, ConcFilename(d), d)

\* The collection after uploading the documents of order one after the other.
RECURSIVE ConcIndex(_)
ConcIndex(order) ==
    IF order = <<>> THEN <<>>
    ELSE ConcInsert(ConcIndex(SubSeq(order, 1, Len(order) - 1)),
                    order[Len(order)])

\* The orders in which some of the documents were uploaded before.
ConcOrders ==
    {order \in UNION {[1..n -> ConcDocuments] : n \in 0..Cardinality(ConcDocuments)} :
        \A a, b \in 1..Len(order) : a # b => order[a] # order[b]}

\* A call at its start: add_documents of a new document, or delete_document.
ConcCall(op, d) ==
    [op |-> op, document_id |-> d, pc |-> "start", ids |-> <<>>,
     deleted_count |-> 0]

InitConc ==
    /\ LET p == DocumentProcessorInit(IndexChunkSize, IndexChunkOverlap) IN
          /\ chunk_size = p.chunk_size
          /\ chunk_overlap = p.chunk_overlap
    /\ text = <<>>
    /\ pc = "idle"
    /\ i = 0
    /\ chunks = <<>>
    /\ windows = <<>>
    /\ \E order \in ConcOrders :
          LET held == {order[k] : k \in 1..Len(order)} IN
          /\ collection = ConcIndex(order)
          /\ files = held
          /\ live = {[document_id |-> d, chunk_count |-> Len(ConcChunks(d))] :
                        d \in held}
          /\ result = [op |-> "writes", status |-> 0,
                       collection_before |-> ConcIndex(order),
                       trace |-> <<>>]
          /\ \E ops \in [ConcWriters -> {"insert", "delete"}] :
                /\ \A w \in ConcWriters : ops[w] = "insert" => w \notin held
                /\ writers = [w \in ConcWriters |-> ConcCall(ops[w], w)]
    /\ uploads = {}
    /\ uuids = Cardinality(ConcDocuments)
    /\ now = Cardinality(ConcDocuments)
    /\ removed = {}

\* The step of writer w is noted in the trace.
ConcStep(w) ==
    result' = [result EXCEPT !.trace = Append(@, w)]

\* add_documents: ids and metadata are local, collection.add is the one step
\* on the collection.
WriterInsert(w) ==
    /\ writers[w].op = "insert"
    /\ writers[w].pc = "start"
    /\ collection' = ConcInsert(collection, writers[w].document_id)
    /\ writers' = [writers EXCEPT ![w].pc = "done"]
    /\ ConcStep(w)

\* delete_document: results = self.collection.get(where=...)
WriterFind(w) ==
    /\ writers[w].op = "delete"
    /\ writers[w].pc = "start"
    /\ writers' = [writers EXCEPT
                      ![w].ids = CollectionGetIds(collection, writers[w].document_id),
                      ![w].pc = "found"]
    /\ UNCHANGED collection
    /\ ConcStep(w)

\* delete_document: if not results['ids']: return 0
WriterNothing(w) ==
    /\ writers[w].pc = "found"
    /\ writers[w].ids = <<>>
    /\ writers' = [writers EXCEPT ![w].deleted_count = 0, ![w].pc = "done"]
    /\ UNCHANGED collection
    /\ ConcStep(w)

\* delete_document: self.collection.delete(ids=...); return len(results['ids'])
WriterRemove(w) ==
    /\ writers[w].pc = "found"
    /\ writers[w].ids # <<>>
    /\ collection' = CollectionDelete(collection, writers[w].ids)
    /\ writers' = [writers EXCEPT ![w].deleted_count = Len(writers[w].ids),
                                  ![w].pc = "done"]
    /\ ConcStep(w)

ConcInserts ==
    /\ \E w \in ConcWriters : WriterInsert(w)
    /\ UNCHANGED <<chunkVars, files, uuids, now, live, removed, uploads>>

ConcFinds ==
    /\ \E w \in ConcWriters : WriterFind(w)
    /\ UNCHANGED <<chunkVars, files, uuids, now, live, removed, uploads>>

ConcNothings ==
    /\ \E w \in ConcWriters : WriterNothing(w)
    /\ UNCHANGED <<chunkVars, files, uuids, now, live, removed, uploads>>

ConcRemoves ==
    /\ \E w \in ConcWriters : WriterRemove(w)
    /\ UNCHANGED <<chunkVars, files, uuids, now, live, removed, uploads>>

NextConc == ConcInserts \/ ConcFinds \/ ConcNothings \/ ConcRemoves

SpecConc == InitConc /\ [][NextConc]_vars

----------------------------------------------------------------------------
(* Claims about two writes side by side *)

\* The collection after the whole write of call p on coll.
WriteAlone(coll, p) ==
    IF p.op = "insert" THEN ConcInsert(coll, p.document_id)
    ELSE delete_document(coll, p.document_id).collection

\* The number of records coll holds for document d.
HeldFor(coll, d) ==
    Cardinality({j \in 1..Len(coll) : coll[j].metadata.document_id = d})

\* C12: when a write on document 1 and a write on document 2 (each an insert
\* of a new document or a delete in its two steps, find then remove) have both
\* finished, however their steps were interleaved, the collection is what
\* running the one write and then the other gives, and each delete has
\* returned the number of records its own document had at the start.
C12_IndependentWrites ==
    (\A w \in DOMAIN writers : writers[w].pc = "done") /\ writers # <<>> =>
        LET start == result.collection_before IN
        /\ \/ collection = WriteAlone(WriteAlone(start, writers[1]), writers[2])
           \/ collection = WriteAlone(WriteAlone(start, writers[2]), writers[1])
        /\ \A w \in DOMAIN writers :
              writers[w].op = "delete" =>
                  writers[w].deleted_count = HeldFor(start, writers[w].document_id)
        /\ \A d \in ConcDocuments :
              HeldFor(collection, d) =
                  IF d \in DOMAIN writers
                  THEN IF writers[d].op = "insert" THEN Len(ConcChunks(d)) ELSE 0
                  ELSE HeldFor(start, d)

\* Document 2 was inserted between the find and the remove of a delete that
\* found the records of document 1, with a third document stored.
C12_Witness ==
    /\ writers # <<>>
    /\ result.trace = <<1, 2, 1>>
    /\ writers[1].op = "delete" /\ writers[1].pc = "done"
    /\ writers[1].deleted_count >= 2
    /\ writers[2].op = "insert" /\ writers[2].pc = "done"
    /\ HeldFor(collection, 3) >= 1

====
